---- MODULE Spec2Model ----
(***************************************************************************)
(* PLEX Runtime: the pulse scheduler (PlexRuntime, src/plex.js) and the    *)
(* BM25 sparse engine (SparseEngine, src/plex-vs-dense-demo.mjs and the    *)
(* benchmark variant) as state machines.                                   *)
(*                                                                         *)
(* JavaScript runs every stretch of code between two awaits to completion, *)
(* so one action of the scheduler is one such stretch: the controller      *)
(* (run + executePulse) from a resumption to its next await, or the        *)
(* continuation of one unit after `await fn(task.data)` settles.           *)
(***************************************************************************)
EXTENDS Integers, Sequences, FiniteSets, TLC

\* ------------------------------------------------------------------ bounds
MaxN     == 4      \* longest dataset
MaxPulse == 3      \* largest pulseSize tried
MaxConc  == 3      \* largest maxConcurrency tried
MaxSpin  == 2      \* how far below 0 the loop index of run may drift
MaxCalls == 2      \* run() calls made one after the other on one instance

MinPulse == 0 - 1  \* smallest pulseSize tried (non-positive values are legal JS)
Data     == {1, 2} \* dataset elements
Runs     == {"A", "B"}   \* run() invocations that may be in progress on one instance
Callers  == {"A"}        \* the invocations made by the sequential caller
Outcomes == {"ok", "reject", "throw"}  \* what fn does on an element

Max(a, b) == IF a > b THEN a ELSE b
Min(a, b) == IF a < b THEN a ELSE b

VARIABLES
  pulseSize,       \* this.pulseSize
  maxConcurrency,  \* this.maxConcurrency
  active,          \* this.active
  dataset,         \* argument of run: sequence of elements
  fnOut,           \* argument of run: how fn behaves on each element
  fnSettles,       \* argument of run: what settles the promise fn returns,
                   \* a promise job (microtask) or a timer or I/O callback (task)
  pc,              \* per run: where the controller is suspended
  idx,             \* per run: i of the for loop in run
  pulse,           \* per run: the pulse being executed (sequence of tasks)
  pos,             \* per run: position in pulse of the next task of the for-of loop
  inflight,        \* per run: ids whose exec promise is in inflight, in push order
  raceOut,         \* per run: state of the promise of Promise.race being awaited
  results,         \* per run: the results array
  ustate,          \* per run: id -> pending | running | done | failed
  calls,           \* per run: id -> number of times fn was invoked on it
  ncalls,          \* run() calls made so far by the sequential caller
  prevOut          \* what the previous sequential run() call resolved with

rtvars == <<pulseSize, maxConcurrency, active, dataset, fnOut, fnSettles, pc, idx, pulse,
            pos, inflight, raceOut, results, ustate, calls, ncalls, prevOut>>

\* ------------------------------------------------------------- PlexRuntime

\* fn of the reference usage: item => item * 2
Fn(x) == 2 * x

\* dataset.map((d, i) => ({ id: i, data: d }))
Tasks(ds) == [k \in 1..Len(ds) |-> [id |-> k - 1, data |-> ds[k]]]

\* Array.prototype.slice(start, end): negative arguments count from the end,
\* both are clamped to 0..length.
Slice(arr, start, end) ==
  LET n    == Len(arr)
      from == IF start < 0 THEN Max(n + start, 0) ELSE Min(start, n)
      to   == IF end < 0 THEN Max(n + end, 0) ELSE Min(end, n)
  IN  [k \in 1..Max(to - from, 0) |-> arr[from + k]]

\* the pulse cut by run at loop index i
PulseAtInclusive(ds, i) == Slice(Tasks(ds), i, i + pulseSize + 1)
PulseAt(ds, i) == Slice(Tasks(ds), i, i + pulseSize)

\* i < tasks.length
HasNextShort(i) == i + 1 < Len(dataset)
HasNext(i) == i < Len(dataset)

\* i += this.pulseSize
NextIndexSkip(i) == i + pulseSize + 1
NextIndex(i) == i + pulseSize

\* while (this.active >= this.maxConcurrency)
AtLimitLate(a) == a > maxConcurrency
AtLimit(a) == a >= maxConcurrency

Settled(st) == st \in {"done", "failed"}

\* How the promise returned by fn can be settled: by a promise job, as for a
\* synchronous or an async function that awaits no timer or I/O, or by the
\* callback of a timer or of an I/O operation, which the event loop runs only
\* when no promise job is queued.
Settlers == {"job", "task"}

\* finally { this.active-- }: runs when the closure ends, with or without
\* an exception
ReleaseNever(a) == a
Release(a) == a - 1

\* The promise returned by Promise.race(inflight) at the moment of the call:
\* the reactions of already settled promises are queued in array order, so
\* the first settled entry decides; with none settled (or an empty array) the
\* promise stays pending.
RaceAtCall(infl, us) ==
  LET S == {k \in 1..Len(infl) : Settled(us[infl[k]])}
  IN  IF S = {} THEN "none"
      ELSE LET k == CHOOSE m \in S : \A o \in S : m <= o
           IN  IF us[infl[k]] = "done" THEN "ok" ELSE "err"

\* Promise.all(inflight) fulfils once every entry is fulfilled ...
AllSettled(infl, us) == \A k \in 1..Len(infl) : Settled(us[infl[k]])
AnyFulfilled(infl, us) == \E k \in 1..Len(infl) : us[infl[k]] = "done"
AllFulfilled(infl, us) == \A k \in 1..Len(infl) : us[infl[k]] = "done"
\* ... and rejects as soon as one entry is rejected.
SomeRejected(infl, us) == \E k \in 1..Len(infl) : us[infl[k]] = "failed"

\* One iteration body of the for-of loop of executePulse after the while
\* loop let it through: this.active++, the async closure runs up to
\* `await fn(task.data)` (fn is invoked here), inflight.push(exec).  When fn
\* throws synchronously the finally block undoes the increment at once and
\* exec is already rejected.
Admit(s, task) ==
  LET out == fnOut[task.data]
  IN  [s EXCEPT !.active   = IF out = "throw" THEN Release(@ + 1) ELSE @ + 1,
                !.calls    = [@ EXCEPT ![task.id] = @ + 1],
                !.ustate   = [@ EXCEPT ![task.id] =
                                 IF out = "throw" THEN "failed" ELSE "running"],
                !.inflight = Append(@, task.id),
                !.pos      = @ + 1]

\* executePulse from the head of its for-of loop (at s.pos) to its next await.
RECURSIVE ExecutePulse(_)
ExecutePulse(s) ==
  IF s.pos > Len(s.pulse)
    THEN [s EXCEPT !.pc = "all"]
    ELSE IF AtLimit(s.active)
      THEN [s EXCEPT !.pc = "race",
                     !.raceOut = RaceAtCall(s.inflight, s.ustate)]
      ELSE ExecutePulse(Admit(s, s.pulse[s.pos]))

\* run from the test of its for loop (at s.idx) to its next await or return.
Run(s) ==
  IF HasNext(s.idx)
    THEN ExecutePulse([s EXCEPT !.pulse    = PulseAt(dataset, s.idx),
                                !.pos      = 1,
                                !.inflight = <<>>,
                                !.raceOut  = "none"])
    ELSE [s EXCEPT !.pc = "resolved"]

\* the controller of run r as a record, and back
Ctl(r) == [pc |-> pc[r], idx |-> idx[r], pulse |-> pulse[r], pos |-> pos[r],
           inflight |-> inflight[r], raceOut |-> raceOut[r],
           active |-> active, ustate |-> ustate[r], calls |-> calls[r]]

Install(r, s) ==
  /\ pc'       = [pc EXCEPT ![r] = s.pc]
  /\ idx'      = [idx EXCEPT ![r] = s.idx]
  /\ pulse'    = [pulse EXCEPT ![r] = s.pulse]
  /\ pos'      = [pos EXCEPT ![r] = s.pos]
  /\ inflight' = [inflight EXCEPT ![r] = s.inflight]
  /\ raceOut'  = [raceOut EXCEPT ![r] = s.raceOut]
  /\ ustate'   = [ustate EXCEPT ![r] = s.ustate]
  /\ calls'    = [calls EXCEPT ![r] = s.calls]
  /\ active'   = s.active

Fresh == [pc |-> "idle", idx |-> 0, pulse |-> <<>>, pos |-> 1,
          inflight |-> <<>>, raceOut |-> "none",
          ustate |-> [u \in 0..(Len(dataset) - 1) |-> "pending"],
          calls |-> [u \in 0..(Len(dataset) - 1) |-> 0]]

\* new PlexRuntime({pulseSize, maxConcurrency}) with run not yet called on
\* dataset ds and a function behaving as fo
Constructed(ps, mc, ds, fo) ==
  /\ pulseSize = ps
  /\ maxConcurrency = mc
  /\ active = 0
  /\ dataset = ds
  /\ fnOut = fo
  /\ pc = [r \in Runs |-> "idle"]
  /\ idx = [r \in Runs |-> 0]
  /\ pulse = [r \in Runs |-> <<>>]
  /\ pos = [r \in Runs |-> 1]
  /\ inflight = [r \in Runs |-> <<>>]
  /\ raceOut = [r \in Runs |-> "none"]
  /\ results = [r \in Runs |-> <<>>]
  /\ ustate = [r \in Runs |-> [u \in 0..(Len(ds) - 1) |-> "pending"]]
  /\ calls = [r \in Runs |-> [u \in 0..(Len(ds) - 1) |-> 0]]
  /\ ncalls = 0
  /\ prevOut = <<>>

RuntimeInit ==
  \E ps \in MinPulse..MaxPulse, mc \in 0..MaxConc,
     ds \in UNION {[1..n -> Data] : n \in 0..MaxN}, fo \in [Data -> Outcomes] :
       Constructed(ps, mc, ds, fo)

\* a continuation of a controller is queued as a promise job: the promise it
\* awaits (Promise.race or Promise.all of inflight) is settled
JobsPending ==
  \E r \in Runs :
    \/ pc[r] = "race" /\ raceOut[r] # "none"
    \/ pc[r] = "all" /\ (AllFulfilled(inflight[r], ustate[r])
                         \/ SomeRejected(inflight[r], ustate[r]))
\* the promise returned by fn can be settled now
CanSettle == IF fnSettles = "job" THEN TRUE ELSE ~JobsPending

\* runtime.run(dataset, fn): builds tasks and results and runs to the first await
Call(r) ==
  /\ pc[r] = "idle"
  /\ ncalls = 0
  /\ Install(r, Run([Ctl(r) EXCEPT !.idx = 0]))
  /\ ncalls' = 1
  /\ UNCHANGED <<pulseSize, maxConcurrency, dataset, fnOut, fnSettles, results, prevOut>>

\* `await fn(task.data)` fulfils: results.push, then finally this.active--
Complete(r, u) ==
  /\ ustate[r][u] = "running"
  /\ fnOut[dataset[u + 1]] = "ok"
  /\ CanSettle
  /\ results' = [results EXCEPT ![r] =
                   Append(@, [id |-> u, result |-> Fn(dataset[u + 1])])]
  /\ active' = Release(active)
  /\ ustate' = [ustate EXCEPT ![r][u] = "done"]
  /\ raceOut' = [raceOut EXCEPT ![r] =
                   IF pc[r] = "race" /\ @ = "none" THEN "ok" ELSE @]
  /\ UNCHANGED <<pulseSize, maxConcurrency, dataset, fnOut, fnSettles, pc, idx, pulse,
                 pos, inflight, calls, ncalls, prevOut>>

\* `await fn(task.data)` rejects: nothing is pushed, finally this.active--
Fail(r, u) ==
  /\ ustate[r][u] = "running"
  /\ fnOut[dataset[u + 1]] = "reject"
  /\ CanSettle
  /\ active' = Release(active)
  /\ ustate' = [ustate EXCEPT ![r][u] = "failed"]
  /\ raceOut' = [raceOut EXCEPT ![r] =
                   IF pc[r] = "race" /\ @ = "none" THEN "err" ELSE @]
  /\ UNCHANGED <<pulseSize, maxConcurrency, dataset, fnOut, fnSettles, pc, idx, pulse,
                 pos, inflight, results, calls, ncalls, prevOut>>

\* `await Promise.race(inflight)` fulfils: back to the test of the while loop
RaceResume(r) ==
  /\ pc[r] = "race"
  /\ raceOut[r] = "ok"
  /\ Install(r, ExecutePulse([Ctl(r) EXCEPT !.raceOut = "none"]))
  /\ UNCHANGED <<pulseSize, maxConcurrency, dataset, fnOut, fnSettles, results, ncalls,
                 prevOut>>

\* `await Promise.race(inflight)` rejects: executePulse and run reject
RaceThrow(r) ==
  /\ pc[r] = "race"
  /\ raceOut[r] = "err"
  /\ pc' = [pc EXCEPT ![r] = "rejected"]
  /\ UNCHANGED <<pulseSize, maxConcurrency, active, dataset, fnOut, fnSettles, idx, pulse,
                 pos, inflight, raceOut, results, ustate, calls, ncalls,
                 prevOut>>

\* `await Promise.all(inflight)` fulfils: executePulse returns, run does
\* i += pulseSize and goes on with the next pulse or returns results
PulseDone(r) ==
  /\ pc[r] = "all"
  /\ AllFulfilled(inflight[r], ustate[r])
  /\ NextIndex(idx[r]) >= 0 - MaxSpin
  /\ Install(r, Run([Ctl(r) EXCEPT !.idx = NextIndex(@)]))
  /\ UNCHANGED <<pulseSize, maxConcurrency, dataset, fnOut, fnSettles, results, ncalls,
                 prevOut>>

\* `await Promise.all(inflight)` rejects: executePulse and run reject
PulseThrow(r) ==
  /\ pc[r] = "all"
  /\ SomeRejected(inflight[r], ustate[r])
  /\ pc' = [pc EXCEPT ![r] = "rejected"]
  /\ UNCHANGED <<pulseSize, maxConcurrency, active, dataset, fnOut, fnSettles, idx, pulse,
                 pos, inflight, raceOut, results, ustate, calls, ncalls,
                 prevOut>>

\* the caller, after `await runtime.run(dataset, fn)` returned, calls
\* runtime.run(dataset, fn) again on the same instance
CallAgain(r) ==
  /\ pc[r] = "resolved"
  /\ ncalls >= 1
  /\ ncalls < MaxCalls
  /\ prevOut' = results[r]
  /\ results' = [results EXCEPT ![r] = <<>>]
  /\ Install(r, Run([Fresh EXCEPT !.idx = 0] @@ [active |-> active]))
  /\ ncalls' = ncalls + 1
  /\ UNCHANGED <<pulseSize, maxConcurrency, dataset, fnOut, fnSettles>>

\* runtime.run(dataset, fn) called on the instance while an earlier call is
\* still in progress: the new call has its own tasks, results and inflight and
\* shares this.active
CallDuring(r) ==
  /\ pc[r] = "idle"
  /\ \E o \in Runs \ {r} : pc[o] \in {"race", "all"}
  /\ Install(r, Run([Ctl(r) EXCEPT !.idx = 0]))
  /\ UNCHANGED <<pulseSize, maxConcurrency, dataset, fnOut, fnSettles, results, ncalls,
                 prevOut>>

\* ------------------------------------------------------------ SparseEngine
MaxDocs == 3       \* largest corpus

K1x10   == 12      \* this.k1 = 1.2, in tenths
Bx100   == 75      \* this.b = 0.75, in hundredths
TopK    == 10      \* .slice(0, 10) of the benchmark ranking
Scale   == 10000   \* scores and idf are kept in units of 1/Scale
LnTerms == 8       \* terms of the series Math.log is computed with

VARIABLES
  docs,      \* this.docs
  idf,       \* this.idf: Map term -> idf
  avgLen,    \* this.avgLen (avgDocLen in the benchmark variant)
  docFreqs,  \* this.docFreqs: per document, Map term -> count
  estate,    \* new | built
  query,     \* the tokens of the last query
  searched,  \* the tokens last given to search since init, <<>> when none
  hits,      \* what the last search(query) returned
  ranked     \* the last ranking of the benchmark

envars == <<docs, idf, avgLen, docFreqs, estate, query, searched, hits, ranked>>
vars == <<rtvars, envars>>

\* --- strings are sequences of characters
Range(f) == {f[x] : x \in DOMAIN f}

\* String.prototype.toLowerCase
LowerChar(c) == IF c = "A" THEN "a" ELSE IF c = "B" THEN "b" ELSE c
ToLowerCase(str) == [k \in 1..Len(str) |-> LowerChar(str[k])]

\* Array.prototype.join(sep)
RECURSIVE Join(_, _)
Join(strs, sep) ==
  IF Len(strs) = 0 THEN <<>>
  ELSE IF Len(strs) = 1 THEN strs[1]
  ELSE strs[1] \o sep \o Join(Tail(strs), sep)

\* String.prototype.split(/\s+/): cuts at every maximal run of whitespace;
\* a leading or trailing run leaves an empty string at that end
RECURSIVE SplitFrom(_, _, _)
SplitFrom(str, k, cur) ==
  IF k > Len(str) THEN <<cur>>
  ELSE IF str[k] = " "
    THEN IF k > 1 /\ str[k - 1] = " "
           THEN SplitFrom(str, k + 1, cur)
           ELSE <<cur>> \o SplitFrom(str, k + 1, <<>>)
    ELSE SplitFrom(str, k + 1, Append(cur, str[k]))
Split(str) == SplitFrom(str, 1, <<>>)

\* .filter(Boolean) on strings
NonEmpty(t) == t # <<>>
FilterBoolean(strs) == SelectSeq(strs, NonEmpty)

\* (item[f] || "").toString().toLowerCase()
Fields == <<"city", "state", "zip", "_id">>
FieldText(item, f) ==
  ToLowerCase(IF f \in DOMAIN item /\ item[f] # <<>> THEN item[f] ELSE <<>>)

\* tokenize(item)
Tokenize(item) ==
  FilterBoolean(Split(Join([k \in 1..Len(Fields) |-> FieldText(item, Fields[k])],
                           <<" ">>)))

\* q.toLowerCase().split(/\s+/) of the callers
QueryTokens(raw) == Split(ToLowerCase(raw))

\* tokens.forEach(t => freq.set(t, (freq.get(t) || 0) + 1))
TermFreq(tokens) ==
  [t \in Range(tokens) |-> Cardinality({k \in 1..Len(tokens) : tokens[k] = t})]

\* --- numbers
\* a quotient of two counts as JavaScript computes it: 0/0 is NaN
Div(a, b) == [nan |-> (b = 0), num |-> a, den |-> IF b = 0 THEN 1 ELSE b]
NaN       == [nan |-> TRUE, val |-> 0]
Num(v)    == [nan |-> FALSE, val |-> v]
FAdd(x, y) == IF x.nan \/ y.nan THEN NaN ELSE Num(x.val + y.val)

\* Math.log(p / q) for p >= q > 0, in units of 1/Scale:
\* ln x = 2 (y + y^3/3 + y^5/5 + ...) with y = (x - 1)/(x + 1)
RECURSIVE LnSum(_, _, _)
LnSum(pw, y2, k) ==
  IF k > LnTerms THEN 0
  ELSE pw \div (2 * k + 1) + LnSum((pw * y2) \div Scale, y2, k + 1)
Ln(p, q) ==
  LET y == ((p - q) * Scale) \div (p + q)
  IN  2 * LnSum(y, (y * y) \div Scale, 0)

\* Math.log((N - c + 0.5) / (c + 0.5) + 1), the quotient taken in halves
IdfOf(N, c) ==
  LET a == 2 * (N - c) + 1
      b == 2 * c + 1
  IN  Ln(a + b, b)

\* --- init(docs)
\* new Set(tokens).forEach(t => df.set(t, (df.get(t) || 0) + 1)): what one
\* document adds to the document frequency of t
DfStepPerToken(tokens, t) == Cardinality({k \in 1..Len(tokens) : tokens[k] = t})
DfStep(tokens, t) == IF t \in Range(tokens) THEN 1 ELSE 0

\* the body of docs.forEach: one document added to total, docFreqs and df
AddDoc(acc, d) ==
  LET tokens == Tokenize(d)
      seen   == Range(tokens)
  IN  [total |-> acc.total + Len(tokens),
       freqs |-> Append(acc.freqs, TermFreq(tokens)),
       df    |-> [t \in (DOMAIN acc.df) \cup seen |->
                    (IF t \in DOMAIN acc.df THEN acc.df[t] ELSE 0)
                    + DfStep(tokens, t)]]

RECURSIVE Pass(_, _, _)
Pass(ds, i, acc) ==
  IF i > Len(ds) THEN acc ELSE Pass(ds, i + 1, AddDoc(acc, ds[i]))

EmptyMap == [t \in {} |-> 0]

\* this.avgLen = total / docs.length
AvgLenOf(total, n) == Div(total, n)

\* --- score(query, docIndex) of the optimized engine
\* idf * ((tf * (k1 + 1)) / (tf + k1 * (1 - b + b * L / avg))), avg = num/den
Bm25(idfv, tf, L, avg) ==
  (idfv * tf * (K1x10 + 10) * 100 * avg.num)
    \div (1000 * tf * avg.num
          + K1x10 * ((100 - Bx100) * avg.num + Bx100 * L * avg.den))

\* (this.avgLen || 1)
AvgOrOne == IF avgLen.nan \/ avgLen.num = 0 THEN [num |-> 1, den |-> 1]
            ELSE [num |-> avgLen.num, den |-> avgLen.den]

\* this.idf.get(q) || 0
IdfGet(q) == IF q \in DOMAIN idf THEN idf[q] ELSE 0

\* Array.from(tokens.values()).reduce((a, b) => a + b, 0)
RECURSIVE SumValues(_, _)
SumValues(m, D) ==
  IF D = {} THEN 0
  ELSE LET t == CHOOSE x \in D : TRUE IN m[t] + SumValues(m, D \ {t})

RECURSIVE ScoreFrom(_, _, _)
ScoreFrom(q, k, freq) ==
  IF k > Len(q) THEN 0
  ELSE LET tf == IF q[k] \in DOMAIN freq THEN freq[q[k]] ELSE 0
       IN  (IF tf = 0 THEN 0
            ELSE Bm25(IdfGet(q[k]), tf, SumValues(freq, DOMAIN freq), AvgOrOne))
           + ScoreFrom(q, k + 1, freq)
Score(q, docIndex) == ScoreFrom(q, 1, docFreqs[docIndex])

\* search(query): one entry per document scoring above 0, in corpus order;
\* the document object of an entry is named by its position in docs
RECURSIVE SearchFrom(_, _)
SearchFrom(tokens, i) ==
  IF i > Len(docs) THEN <<>>
  ELSE LET s == Score(tokens, i)
       IN  (IF s > 0 THEN <<[doc |-> i, score |-> s]>> ELSE <<>>)
           \o SearchFrom(tokens, i + 1)
SearchResult(q) == SearchFrom([k \in 1..Len(q) |-> ToLowerCase(q[k])], 1)

\* --- scoreDoc(tokens, docIndex) of the benchmark engine: the document is
\* tokenized again, every query term is scored (also with tf = 0) and the
\* division by avgDocLen is unguarded
NormTerm(idfv, tf, L) ==
  IF avgLen.nan THEN NaN
  ELSE IF avgLen.num = 0 THEN (IF L = 0 THEN NaN ELSE Num(0))
  ELSE Num(Bm25(idfv, tf, L, avgLen))

RECURSIVE ScoreDocFrom(_, _, _, _)
ScoreDocFrom(q, k, freq, L) ==
  IF k > Len(q) THEN Num(0)
  ELSE LET tf == IF q[k] \in DOMAIN freq THEN freq[q[k]] ELSE 0
       IN  FAdd(NormTerm(IdfGet(q[k]), tf, L), ScoreDocFrom(q, k + 1, freq, L))
ScoreDoc(q, docIndex) ==
  LET docTokens == Tokenize(docs[docIndex])
  IN  ScoreDocFrom(q, 1, TermFreq(docTokens), Len(docTokens))

\* --- score(query, doc) of the first engine: the document is tokenized
\* again, query terms with tf = 0 are skipped and the division by avgLen is
\* unguarded
RECURSIVE ScoreTokenizingFrom(_, _, _, _)
ScoreTokenizingFrom(q, k, freq, L) ==
  IF k > Len(q) THEN Num(0)
  ELSE LET tf == IF q[k] \in DOMAIN freq THEN freq[q[k]] ELSE 0
       IN  FAdd(IF tf = 0 THEN Num(0) ELSE NormTerm(IdfGet(q[k]), tf, L),
                ScoreTokenizingFrom(q, k + 1, freq, L))
ScoreTokenizing(q, doc) ==
  LET tokens == Tokenize(doc)
  IN  ScoreTokenizingFrom(q, 1, TermFreq(tokens), Len(tokens))

\* .sort((a, b) => b.score - a.score): b goes before a when the difference
\* is positive; a NaN difference counts as 0.  The sort is stable.
Before(b, a) == ~a.score.nan /\ ~b.score.nan /\ b.score.val > a.score.val
RECURSIVE Insert(_, _)
Insert(sorted, x) ==
  IF sorted = <<>> THEN <<x>>
  ELSE LET last == sorted[Len(sorted)]
       IN  IF Before(x, last)
             THEN Append(Insert(SubSeq(sorted, 1, Len(sorted) - 1), x), last)
             ELSE Append(sorted, x)
RECURSIVE SortFrom(_, _, _)
SortFrom(arr, k, sorted) ==
  IF k > Len(arr) THEN sorted ELSE SortFrom(arr, k + 1, Insert(sorted, arr[k]))
SortByScore(arr) == SortFrom(arr, 1, <<>>)

\* data.map((_, i) => ({id: i, score: scoreDoc(tokens, i)})).sort(...).slice(0, 10)
Ranking(q) ==
  Slice(SortByScore([i \in 1..Len(docs) |-> [id |-> i - 1, score |-> ScoreDoc(q, i)]]),
        0, TopK)

\* --- the engine as a state machine
DocPool ==
  { "city" :> <<"A">>,
    ("city" :> <<"a">>) @@ ("state" :> <<"B">>),
    ("zip" :> <<"b">>) @@ ("_id" :> <<"b">>),
    ("city" :> <<" ">>) @@ ("state" :> <<>>),
    ("city" :> <<"b", " ", "a">>) @@ ("_id" :> <<"b">>) }
QueryPool == { <<"A">>, <<"b">>, <<"a", " ", "b">>, <<"z">>, <<>> }

\* new SparseEngine()
EngineNew ==
  /\ docs = <<>>
  /\ idf = EmptyMap
  /\ avgLen = Div(0, 1)
  /\ docFreqs = <<>>
  /\ estate = "new"
  /\ query = <<>>
  /\ searched = <<>>
  /\ hits = <<>>
  /\ ranked = <<>>

\* engine.init(corpus)
EngineInit(corpus) ==
  /\ estate = "new"
  /\ LET acc == Pass(corpus, 1, [total |-> 0, freqs |-> <<>>, df |-> EmptyMap])
     IN  /\ docs' = corpus
         /\ docFreqs' = acc.freqs
         /\ avgLen' = AvgLenOf(acc.total, Len(corpus))
         /\ idf' = [t \in (DOMAIN idf) \cup (DOMAIN acc.df) |->
                      IF t \in DOMAIN acc.df
                        THEN IdfOf(Len(corpus), acc.df[t]) ELSE idf[t]]
  /\ estate' = "built"
  /\ searched' = <<>>
  /\ UNCHANGED <<query, hits, ranked>>

\* this.idf once a query has been scored: score and scoreDoc look terms up
\* with this.idf.get(q) and enter nothing
IdfEntering(q) ==
  [t \in (DOMAIN idf) \cup Range(q) |->
     IF t \in DOMAIN idf THEN idf[t] ELSE IdfOf(Len(docs), 0)]
IdfAfterScore(q) == idf

\* engine.search(tokens) as the demo calls it
Search(raw) ==
  /\ query' = QueryTokens(raw)
  /\ searched' = QueryTokens(raw)
  /\ hits' = SearchResult(QueryTokens(raw))
  /\ idf' = IdfAfterScore(QueryTokens(raw))
  /\ UNCHANGED <<docs, avgLen, docFreqs, estate, ranked>>

\* one query of the benchmark loop
Benchmark(raw) ==
  /\ query' = QueryTokens(raw)
  /\ ranked' = Ranking(QueryTokens(raw))
  /\ idf' = IdfAfterScore(QueryTokens(raw))
  /\ UNCHANGED <<docs, avgLen, docFreqs, estate, searched, hits>>

Corpora == UNION {[1..n -> DocPool] : n \in 0..MaxDocs}

\* --------------------------------------------------------- specifications
\* the scheduler, with an engine that is never used
Init == RuntimeInit /\ fnSettles = "job" /\ EngineNew
Next ==
  \/ \E r \in Callers : Call(r) /\ UNCHANGED envars
  \/ \E r \in Callers, u \in 0..(Len(dataset) - 1) : Complete(r, u) /\ UNCHANGED envars
  \/ \E r \in Callers, u \in 0..(Len(dataset) - 1) : Fail(r, u) /\ UNCHANGED envars
  \/ \E r \in Callers : RaceResume(r) /\ UNCHANGED envars
  \/ \E r \in Callers : RaceThrow(r) /\ UNCHANGED envars
  \/ \E r \in Callers : PulseDone(r) /\ UNCHANGED envars
  \/ \E r \in Callers : PulseThrow(r) /\ UNCHANGED envars
  \/ \E r \in Callers : CallAgain(r) /\ UNCHANGED envars
Spec == Init /\ [][Next]_vars

\* the scheduler with a second call made while the first is in progress, on
\* valid configurations and a function that never fails
InitConcurrent ==
  /\ \E ps \in 1..MaxPulse, mc \in 1..MaxConc,
        ds \in UNION {[1..n -> Data] : n \in 0..MaxN} :
          Constructed(ps, mc, ds, [d \in Data |-> "ok"])
  /\ fnSettles = "job"
  /\ EngineNew
NextConcurrent ==
  \/ \E r \in Callers : Call(r) /\ UNCHANGED envars
  \/ \E r \in Runs \ Callers : CallDuring(r) /\ UNCHANGED envars
  \/ \E r \in Runs, u \in 0..(Len(dataset) - 1) : Complete(r, u) /\ UNCHANGED envars
  \/ \E r \in Runs : RaceResume(r) /\ UNCHANGED envars
  \/ \E r \in Runs : PulseDone(r) /\ UNCHANGED envars
SpecConcurrent == InitConcurrent /\ [][NextConcurrent]_vars

\* the scheduler on valid configurations with a function that succeeds on
\* every element, its promise settled by a promise job or by a timer or I/O
\* callback
InitTimers ==
  /\ \E ps \in 1..MaxPulse, mc \in 1..MaxConc,
        ds \in UNION {[1..n -> Data] : n \in 0..MaxN} :
          Constructed(ps, mc, ds, [d \in Data |-> "ok"])
  /\ fnSettles \in Settlers
  /\ EngineNew
NextTimers ==
  \/ \E r \in Callers : Call(r) /\ UNCHANGED envars
  \/ \E r \in Callers, u \in 0..(Len(dataset) - 1) : Complete(r, u) /\ UNCHANGED envars
  \/ \E r \in Callers : RaceResume(r) /\ UNCHANGED envars
  \/ \E r \in Callers : PulseDone(r) /\ UNCHANGED envars
SpecTimers == InitTimers /\ [][NextTimers]_vars

\* the engine, with a scheduler that is never run
DefaultPulse == 32
DefaultConc  == 8
InitEngine == Constructed(DefaultPulse, DefaultConc, <<>>, [d \in Data |-> "ok"])
              /\ fnSettles = "job"
              /\ EngineNew
NextEngine ==
  \/ \E corpus \in Corpora : EngineInit(corpus) /\ UNCHANGED rtvars
  \/ \E raw \in QueryPool : Search(raw) /\ UNCHANGED rtvars
  \/ \E raw \in QueryPool : Benchmark(raw) /\ UNCHANGED rtvars
SpecEngine == InitEngine /\ [][NextEngine]_vars

\* ----------------------------------------------------------------- claims
PositiveConfig == pulseSize > 0 /\ maxConcurrency > 0
Ids == 0..(Len(dataset) - 1)
Running(r) == {u \in Ids : ustate[r][u] = "running"}
Admitted(r) == {u \in Ids : ustate[r][u] # "pending"}
AllSucceed == \A k \in 1..Len(dataset) : fnOut[dataset[k]] = "ok"
\* the pulse a unit belongs to when pulseSize is positive
PulseOf(u) == u \div pulseSize

\* C1: with a positive pulseSize and maxConcurrency, in every reachable state
\* the active counter, and the number of units admitted and not yet
\* completed, are at most maxConcurrency.
C1_ActiveBounded ==
  PositiveConfig =>
    /\ active <= maxConcurrency
    /\ \A r \in Runs : Cardinality(Running(r)) <= maxConcurrency

\* the limit is reached while further units of the pulse wait for admission
C1_Witness ==
  /\ PositiveConfig
  /\ active = maxConcurrency
  /\ pc["A"] = "race"
  /\ pos["A"] <= Len(pulse["A"])
  /\ Cardinality(Running("A")) = maxConcurrency

\* C2 (as claimed): the sequence run resolves with is index-aligned with the
\* dataset: its i-th entry is the result of fn(dataset[i]).
C2_IndexAligned ==
  \A r \in Runs :
    pc[r] = "resolved" =>
      /\ Len(results[r]) = Len(dataset)
      /\ \A k \in 1..Len(results[r]) :
           results[r][k].result = Fn(dataset[k])

\* C3: when every fn call succeeds (positive configuration), fn is invoked at
\* most once per element at any time, and when run resolves it was invoked
\* exactly once on each element and results has exactly one entry per index.
C3_ExactlyOnce ==
  (PositiveConfig /\ AllSucceed) =>
    \A r \in Runs :
      /\ \A u \in Ids : calls[r][u] <= 1
      /\ pc[r] = "resolved" =>
           /\ \A u \in Ids : calls[r][u] = 1
           /\ Len(results[r]) = Len(dataset)
           /\ \A u \in Ids :
                Cardinality({k \in 1..Len(results[r]) : results[r][k].id = u}) = 1

\* a run over several pulses, with admission having had to wait, resolved
C3_Witness ==
  /\ PositiveConfig /\ AllSucceed
  /\ pc["A"] = "resolved"
  /\ Len(dataset) > pulseSize
  /\ pulseSize > maxConcurrency
  /\ Len(results["A"]) = Len(dataset)

\* C4: pulses never overlap: a unit of a later pulse is admitted only when
\* every unit of every earlier pulse has completed.
C4_NoPulseOverlap ==
  PositiveConfig =>
    \A r \in Runs : \A u \in Ids, v \in Ids :
      (PulseOf(u) < PulseOf(v) /\ ustate[r][v] # "pending")
        => Settled(ustate[r][u])

\* a unit of the second pulse runs, the first pulse having run concurrently
C4_Witness ==
  /\ PositiveConfig
  /\ pulseSize >= 2 /\ maxConcurrency >= 2
  /\ \E v \in Ids : PulseOf(v) = 1 /\ ustate["A"][v] = "running"

\* C5 (as claimed): a failure of fn is recorded as part of the result of its
\* unit and never aborts the run.
C5_FailureIsolated ==
  PositiveConfig =>
    \A r \in Runs :
      /\ pc[r] # "rejected"
      /\ \A u \in Ids :
           ustate[r][u] = "failed" =>
             \E k \in 1..Len(results[r]) : results[r][k].id = u

\* C6 (as claimed): with a non-positive pulseSize or maxConcurrency a run
\* called on a non-empty dataset has failed at once; no unit is ever started,
\* nothing hangs or loops.
C6_InvalidConfigFails ==
  (~PositiveConfig /\ Len(dataset) > 0) =>
    \A r \in Runs :
      /\ pc[r] \in {"idle", "rejected"}
      /\ Admitted(r) = {}

\* C7: run resolves only after all pulses have been processed and every unit
\* has completed; no unit is active at that moment.
C7_DoneAfterAll ==
  \A r \in Runs :
    pc[r] = "resolved" =>
      /\ idx[r] >= Len(dataset)
      /\ \A u \in Ids : ustate[r][u] = "done"
      /\ Running(r) = {}
      /\ (\A o \in Runs \ {r} : pc[o] = "idle") => active = 0

\* a run of at least two units resolved, the last pulse having run concurrently
C7_Witness ==
  /\ pc["A"] = "resolved"
  /\ Len(dataset) >= 2
  /\ Len(inflight["A"]) >= 2
  /\ active = 0

\* C8 (as claimed): two runs of the same dataset, configuration and fn
\* resolve with identical output, whatever the completion order.
C8_Deterministic ==
  \A r \in Runs :
    (pc[r] = "resolved" /\ ncalls >= 2) => results[r] = prevOut

\* C9 (as claimed): init over an empty corpus fails; it never completes, and
\* averageDocumentLength is never NaN.
C9_EmptyCorpusFails ==
  estate = "built" => (Len(docs) > 0 /\ ~avgLen.nan)

\* C10 (as claimed): what search returns is sorted by non-increasing score,
\* entries of equal score in corpus order.
C10_SearchSorted ==
  \A k \in 1..Len(hits), m \in 1..Len(hits) :
    k < m => \/ hits[k].score > hits[m].score
             \/ (hits[k].score = hits[m].score /\ hits[k].doc < hits[m].doc)

\* a token of the query occurs in the document at docIndex
Matches(q, docIndex) ==
  \E k \in 1..Len(q) : q[k] \in DOMAIN docFreqs[docIndex]

\* C11 (as claimed): over a corpus of at least one document, for the query
\* last asked and every document, both score and scoreDoc give a number that
\* is not negative, and that is 0 exactly when no query token occurs in the
\* document.
C11_ScoreZeroIffNoMatch ==
  (estate = "built" /\ Len(docs) >= 1) =>
    \A i \in 1..Len(docs) :
      /\ Score(query, i) >= 0
      /\ (Score(query, i) = 0) <=> ~Matches(query, i)
      /\ ~ScoreDoc(query, i).nan
      /\ ScoreDoc(query, i).val >= 0
      /\ (ScoreDoc(query, i).val = 0) <=> ~Matches(query, i)

\* C12: once the index is built no step of the engine (search, score, the
\* benchmark's scoreDoc) changes docs, idf, avgLen or docFreqs, and at any
\* later time, whatever was asked in between, the query last given to search
\* returns again exactly the output it returned.
C12_SearchReadOnly ==
  /\ [][estate = "built" => UNCHANGED <<docs, idf, avgLen, docFreqs>>]_vars
  /\ []((estate = "built" /\ searched # <<>>) => SearchResult(searched) = hits)

\* a query with hits has been searched on a built index and the benchmark
\* has run another query since
C12_Witness ==
  /\ estate = "built"
  /\ hits # <<>>
  /\ ranked # <<>>
  /\ query # searched

\* C13 (as claimed): after init over a corpus of at least one document the
\* average document length is a number strictly above 0, also when documents
\* have missing or empty fields, and every idf is a finite number.
C13_AvgLenPositive ==
  (estate = "built" /\ Len(docs) >= 1) =>
    /\ ~avgLen.nan
    /\ avgLen.num > 0
    /\ \A t \in DOMAIN idf : idf[t] \in Int

\* C14 (as claimed): what search(query) returns has one scored entry for
\* every document of the corpus, documents of score 0 included.
C14_SearchReturnsAll ==
  (estate = "built" /\ searched # <<>>) =>
    /\ Len(hits) = Len(docs)
    /\ \A i \in 1..Len(docs) :
         \E k \in 1..Len(hits) :
           hits[k].doc = i /\ hits[k].score = Score(searched, i)

\* C15: the active counter always equals the number of units admitted and
\* not yet completed (each admission adds one, each completion, successful
\* or failed, takes one away); it is never negative and it is 0 whenever
\* every admitted unit has completed, also in a run in which a unit failed.
C15_ActiveCountsRunning ==
  /\ active >= 0
  /\ active = Cardinality(Running("A")) + Cardinality(Running("B"))
  /\ (\A r \in Runs : \A u \in Admitted(r) : Settled(ustate[r][u])) => active = 0

\* a run rejected because a unit failed, with units that succeeded beside
\* it, all of them completed
C15_Witness ==
  /\ pc["A"] = "rejected"
  /\ \E u \in Ids : ustate["A"][u] = "failed" /\ fnOut[dataset[u + 1]] = "reject"
  /\ \E u \in Ids : ustate["A"][u] = "done"
  /\ Running("A") = {}
  /\ active = 0

\* a unit of the current pulse of r has not been admitted yet
Waiting(r) == pos[r] <= Len(pulse[r])
\* a unit in flight in the current pulse of r has completed
SomeCompleted(r) ==
  \E k \in 1..Len(inflight[r]) : Settled(ustate[r][inflight[r][k]])

\* C16 (as claimed, its last part in the form a finite run refutes): with a
\* positive configuration, whenever a unit of the pulse waits for admission
\* and a unit in flight has completed, the controller is going to resume and
\* admit: it is suspended on a race that has fulfilled.
C16_CompletionAdmitsNext ==
  PositiveConfig =>
    \A r \in Runs :
      (Waiting(r) /\ SomeCompleted(r)) => (pc[r] = "race" /\ raceOut[r] = "ok")

\* the number of pulses of n units cut p at a time: ceil(n / p)
CeilDiv(n, p) == (n + p - 1) \div p
\* the units of pulse k as the claim lists them: k*p .. min((k+1)*p, n) - 1
PulseIndices(k) ==
  [j \in 1..(Min((k + 1) * pulseSize, Len(dataset)) - k * pulseSize) |->
     [id |-> k * pulseSize + j - 1, data |-> dataset[k * pulseSize + j]]]

\* the pulses run cuts from the dataset are exactly those of the claim:
\* pulse k holds k*p .. min((k+1)*p, n) - 1 in order, 1 to p units, and
\* every index lies in exactly one pulse
CutsPartition ==
  LET K == CeilDiv(Len(dataset), pulseSize)
  IN  /\ \A k \in 0..(K - 1) :
           /\ PulseAt(dataset, k * pulseSize) = PulseIndices(k)
           /\ Len(PulseAt(dataset, k * pulseSize)) \in 1..pulseSize
      /\ \A u \in Ids :
           Cardinality({k \in 0..(K - 1) :
             \E j \in 1..Len(PulseAt(dataset, k * pulseSize)) :
               PulseAt(dataset, k * pulseSize)[j].id = u}) = 1

\* C17: with a positive pulseSize p and n units, the pulse cut at index k*p
\* holds exactly the units k*p .. min((k+1)*p, n) - 1 in increasing order
\* (so at most p units, and every index in exactly one pulse; dataset and
\* pulseSize never change, so this is evaluated where run is called), the
\* loop index of run is always a multiple of p, the pulse being executed is
\* the one of the loop index, and a run that resolves has cut ceil(n/p)
\* pulses.
C17_ContiguousPulses ==
  pulseSize > 0 =>
    /\ (pc["A"] = "idle") => CutsPartition
    /\ \A r \in Runs :
         /\ idx[r] % pulseSize = 0
         /\ pc[r] \in {"race", "all"} =>
              /\ idx[r] < Len(dataset)
              /\ Len(pulse[r]) \in 1..pulseSize
              /\ pulse[r] = PulseIndices(idx[r] \div pulseSize)
         /\ pc[r] = "resolved" =>
              idx[r] = CeilDiv(Len(dataset), pulseSize) * pulseSize

\* the last pulse of a run is being executed and is shorter than pulseSize
C17_Witness ==
  /\ pulseSize >= 2
  /\ pc["A"] \in {"race", "all"}
  /\ idx["A"] >= pulseSize
  /\ Len(pulse["A"]) >= 1
  /\ Len(pulse["A"]) < pulseSize

\* C18: with maxConcurrency = 1, a positive pulseSize and a fn that succeeds
\* on every element, at most one unit is active at any time and results
\* grows in dataset index order: its k-th entry is unit k-1 with
\* fn(dataset[k]); a resolved run holds all n entries in that order.
C18_SerialInOrder ==
  (maxConcurrency = 1 /\ pulseSize > 0 /\ AllSucceed) =>
    \A r \in Runs :
      /\ active <= 1
      /\ Cardinality(Running(r)) <= 1
      /\ \A k \in 1..Len(results[r]) :
           results[r][k] = [id |-> k - 1, result |-> Fn(dataset[k])]
      /\ pc[r] = "resolved" => Len(results[r]) = Len(dataset)

\* a serial run over several pulses of more than one unit has resolved on a
\* dataset whose elements differ
C18_Witness ==
  /\ maxConcurrency = 1 /\ pulseSize >= 2 /\ AllSucceed
  /\ Len(dataset) > pulseSize
  /\ \E k \in 1..Len(dataset) : dataset[k] # dataset[1]
  /\ pc["A"] = "resolved"
  /\ Len(results["A"]) = Len(dataset)
  /\ ncalls = 1

\* the documents of the corpus in which term t occurs at least once
DocsWith(t) == {i \in 1..Len(docs) : t \in Range(Tokenize(docs[i]))}

\* C19: after init, idf has an entry for exactly the terms that occur in
\* the corpus, and the entry of t is the idf of the number of documents in
\* which t occurs at least once, however often t is repeated inside one of
\* them.
C19_DocFrequencyOncePerDoc ==
  estate = "built" =>
    /\ DOMAIN idf = UNION {Range(Tokenize(docs[i])) : i \in 1..Len(docs)}
    /\ \A t \in DOMAIN idf :
         idf[t] = IdfOf(Len(docs), Cardinality(DocsWith(t)))

\* an index built over several documents, a term being repeated inside one
\* document and present in another
C19_Witness ==
  /\ estate = "built"
  /\ Len(docs) >= 2
  /\ \E t \in DOMAIN idf :
       /\ \E i \in DocsWith(t) : docFreqs[i][t] >= 2
       /\ Cardinality(DocsWith(t)) >= 2
       /\ Cardinality(DocsWith(t)) < Len(docs)

\* C20 (as claimed): over a corpus of at least one document, for the query
\* last asked and every document index i, the score computed from the cached
\* docFreqs[i] equals the score each re-tokenizing variant computes on
\* docs[i], also when every document of the corpus tokenizes to nothing.
C20_VariantsAgree ==
  (estate = "built" /\ Len(docs) >= 1) =>
    \A i \in 1..Len(docs) :
      /\ ScoreTokenizing(query, docs[i]) = Num(Score(query, i))
      /\ ScoreDoc(query, i) = Num(Score(query, i))

\* C21 (as claimed, termination in the form a finite run refutes): with a
\* positive configuration and a fn that succeeds on every element, a run
\* that was called and has not resolved can always take a step that changes
\* something: it is never left spinning or blocked for good.
C21_RunGoesOn ==
  pc["A"] \in {"idle", "resolved"} \/ ENABLED <<NextTimers>>_vars

\* C22 (as claimed, in the form a finite run refutes): with a second run
\* called while the first is in progress, on a positive configuration and
\* with a fn that succeeds on every element, as long as a run that was
\* called has not resolved a step that changes something is possible: no
\* run is left waiting for good.
C22_BothRunsGoOn ==
  (\A r \in Runs : pc[r] \in {"idle", "resolved"}) \/ ENABLED <<NextConcurrent>>_vars

AppendsCompleted(r) ==
  \E u \in Ids :
    /\ ustate[r][u] = "running"
    /\ ustate'[r][u] = "done"
    /\ results'[r] = Append(results[r], [id |-> u, result |-> Fn(dataset[u + 1])])

====
